---- MODULE Spec2Model ----
(***************************************************************************)
(* Model of jax/experimental/pax.py: save and load of a pytree to and from *)
(* an hdf5 file.                                                           *)
(*                                                                         *)
(* A pytree node is a record [kind, name, keys, items, data]:              *)
(*   kind   "ndarray", "DeviceArray", "list", "tuple", "dict",             *)
(*          "namedtuple", or "object" (any other Python value)             *)
(*   name   type(x).__name__ of a namedtuple or of an object               *)
(*   keys   the dict keys (insertion order) or the namedtuple _fields      *)
(*   items  the children, in container order                               *)
(*   data   the array contents of a leaf                                   *)
(* A name of the file (a key, a field, arr0, pytree) is a string, modelled *)
(* as the sequence of its character codes so that the file's name order    *)
(* and the formatting of arr{k} are computed, not assumed.                 *)
(* The file is the set of its nodes, each a record                         *)
(*   [path, node ("group" or "dataset"), attrs (set of <<key, value>>),    *)
(*    data].                                                               *)
(* h5py.File(filepath, 'w') truncates the file; a group's keys() and       *)
(* values() iterate its children in increasing name order (h5py's default, *)
(* creation order is not tracked).                                         *)
(***************************************************************************)
EXTENDS Integers, Sequences, FiniteSets, TLC

VARIABLES
    file,      \* the nodes of the hdf5 file at filepath
    handles,   \* number of h5py.File handles currently open
    acquired,  \* number of h5py.File handles opened by the current/last call
    pc,        \* position of the running call
    stack,     \* pending _savetree calls, innermost first
    tree,      \* the tree argument of the current/last save
    saved,     \* what the last save did to the file
    result,    \* the value returned by the last load
    last,      \* how the last finished call ended
    resaved    \* whether the current/last save replaced the file of an earlier save

vars == <<file, handles, acquired, pc, stack, tree, saved, result, last, resaved>>

----------------------------------------------------------------------------
(* Bounds of the explored inputs. *)

NumData == 2
MaxLen == 2
MaxDepth == 2
LongLen == 11

----------------------------------------------------------------------------
(* Pytree values. *)

Node(kind, name, keys, items, data) ==
    [kind |-> kind, name |-> name, keys |-> keys, items |-> items, data |-> data]

NdArray(d) == Node("ndarray", "ndarray", <<>>, <<>>, d)

DeviceArray(d) == Node("DeviceArray", "DeviceArray", <<>>, <<>>, d)

Object(n) == Node("object", n, <<>>, <<>>, 0)

List(items) == Node("list", "list", <<>>, items, 0)

Tuple(items) == Node("tuple", "tuple", <<>>, items, 0)

Dict(keys, items) == Node("dict", "dict", keys, items, 0)

NamedTuple(n, fields, items) == Node("namedtuple", n, fields, items, 0)

NoTree == Node("None", "NoneType", <<>>, <<>>, 0)

KeyError == Node("KeyError", "KeyError", <<>>, <<>>, 0)

----------------------------------------------------------------------------
(* Names: strings as sequences of character codes. *)

PyTreeName == <<112, 121, 116, 114, 101, 101>>     \* 'pytree'

KeyNames == {<<120>>, <<121>>}                     \* 'x', 'y'

TypeNames == {"P", "list", "tuple", "dict"}

ObjectTypes == {"str"}

\* str(k) for k >= 0: the decimal digits of k
RECURSIVE Str(_)
Str(k) == IF k < 10 THEN <<48 + k>> ELSE Str(k \div 10) \o <<48 + (k % 10)>>

\* f'arr{k}'
ArrName(k) == <<97, 114, 114>> \o Str(k)

\* a < b as strings (code-point lexicographic order)
StrLess(a, b) ==
    \E i \in 1..(Len(a) + 1) :
        /\ i <= Len(b)
        /\ \A j \in 1..(i - 1) : a[j] = b[j]
        /\ (i = Len(a) + 1 \/ a[i] < b[i])

\* the names of S in increasing name order
RECURSIVE SortNames(_)
SortNames(S) ==
    IF S = {} THEN <<>>
    ELSE LET n == CHOOSE m \in S : \A o \in S \ {m} : StrLess(m, o)
         IN  <<n>> \o SortNames(S \ {n})

----------------------------------------------------------------------------
(* The inputs: the trees save is called with. *)

HostLeaves == {NdArray(d) : d \in 1..NumData}

Leaves == HostLeaves \cup {DeviceArray(0)} \cup {Object(n) : n \in ObjectTypes}

\* the sequences over S of length at most n
SeqsOver(S, n) == UNION {[1..k -> S] : k \in 0..n}

\* the sequences of k distinct keys of Fields
KeySeqs(Fields, k) ==
    {ks \in [1..k -> Fields] : \A i, j \in 1..k : ks[i] = ks[j] => i = j}

\* every container whose children sequence is in Items, with keys or fields
\* from Fields and namedtuple type names from Names
ContainersOf(Items, Fields, Names) ==
    {List(xs) : xs \in Items} \cup {Tuple(xs) : xs \in Items}
    \cup UNION {{Dict(ks, xs) : ks \in KeySeqs(Fields, Len(xs))} : xs \in Items}
    \cup UNION {{NamedTuple(n, ks, xs) : n \in Names, ks \in KeySeqs(Fields, Len(xs))}
                : xs \in Items}

\* containers of at most MaxLen leaves, under every type name
Flat == ContainersOf(SeqsOver(Leaves, MaxLen), KeyNames, TypeNames)

\* single-child chains of the given depth
RECURSIVE Chain(_)
Chain(d) ==
    IF d = 0 THEN Leaves
    ELSE Leaves \cup ContainersOf(SeqsOver(Chain(d - 1), 1), {<<120>>}, {"P"})

\* a container followed by an array, inside one container
Pairs ==
    ContainersOf({<<c, l>> : c \in Chain(1) \ Leaves, l \in HostLeaves},
                 KeyNames, {"P"})

\* sequences long enough for arr10 to exist, all elements distinct
Long == {List([k \in 1..n |-> NdArray(k)]) : n \in 0..LongLen}
        \cup {Tuple([k \in 1..n |-> NdArray(k)]) : n \in 0..LongLen}

Trees == Flat \cup Chain(MaxDepth) \cup Pairs \cup Long

\* files at filepath that no save of this module wrote
ForeignFiles ==
    { {},
      {[path |-> <<PyTreeName>>, node |-> "group", attrs |-> {}, data |-> 0]} }

----------------------------------------------------------------------------
(* The hdf5 file. *)

CreateDataset(f, group, name, data) ==
    f \cup {[path |-> Append(group, name), node |-> "dataset",
             attrs |-> {}, data |-> data]}

CreateGroup(f, group, name) ==
    f \cup {[path |-> Append(group, name), node |-> "group",
             attrs |-> {}, data |-> 0]}

SetAttr(f, path, key, value) ==
    {IF n.path = path
        THEN [n EXCEPT !.attrs = {a \in @ : a[1] # key} \cup {<<key, value>>}]
        ELSE n : n \in f}

HasNode(f, path) == \E n \in f : n.path = path

Lookup(f, path) == CHOOSE n \in f : n.path = path

HasAttr(n, key) == \E a \in n.attrs : a[1] = key

Attr(n, key) == (CHOOSE a \in n.attrs : a[1] = key)[2]

Children(f, path) ==
    {n \in f : /\ Len(n.path) = Len(path) + 1
               /\ SubSeq(n.path, 1, Len(path)) = path}

\* leaf.keys(): the child names, in the file's iteration order (by name)
Keys(f, path) == SortNames({n.path[Len(n.path)] : n \in Children(f, path)})

----------------------------------------------------------------------------
(* save *)

\* jax.device_get(tree): every device array becomes a host ndarray
RECURSIVE DeviceGet(_)
DeviceGet(t) ==
    IF t.kind = "DeviceArray" THEN NdArray(t.data)
    ELSE IF t.items = <<>> THEN t
    ELSE [t EXCEPT !.items = [k \in 1..Len(t.items) |-> DeviceGet(t.items[k])]]

IsNdarray(t) == t.kind = "ndarray"

IsNamedtuple(t) == t.kind = "namedtuple"

IsSequence(t) == t.kind \in {"tuple", "list"}

IsDict(t) == t.kind = "dict"

\* type(tree).__name__
TypeName(t) == t.name

Frame(t, group, name) == [tree |-> t, group |-> group, name |-> name]

\* save with the root stored under another name than 'pytree'
SaveOpenMisnamed(t) ==
    /\ pc = "idle"
    /\ pc' = "saving"
    /\ file' = {}
    /\ handles' = handles + 1
    /\ acquired' = 1
    /\ stack' = <<Frame(DeviceGet(t), <<>>, <<116, 114, 101, 101>>)>>
    /\ tree' = t
    /\ saved' = "writing"
    /\ result' = NoTree
    /\ last' = "none"
    /\ resaved' = (saved # "none")

\* with h5py.File(filepath, 'w') as f: _savetree(jax.device_get(tree), f, 'pytree')
SaveOpen(t) ==
    /\ pc = "idle"
    /\ pc' = "saving"
    /\ file' = {}
    /\ handles' = handles + 1
    /\ acquired' = 1
    /\ stack' = <<Frame(DeviceGet(t), <<>>, PyTreeName)>>
    /\ tree' = t
    /\ saved' = "writing"
    /\ result' = NoTree
    /\ last' = "none"
    /\ resaved' = (saved # "none")

\* the group created for a container, with its type attribute
NewGroup(f, fr) ==
    SetAttr(CreateGroup(f, fr.group, fr.name), Append(fr.group, fr.name),
            "type", TypeName(fr.tree))

\* _savetree on an ndarray
SaveDataset ==
    /\ pc = "saving" /\ stack # <<>>
    /\ LET fr == Head(stack) IN
        /\ IsNdarray(fr.tree)
        /\ file' = CreateDataset(file, fr.group, fr.name, fr.tree.data)
        /\ stack' = Tail(stack)
    /\ UNCHANGED <<handles, acquired, pc, tree, saved, result, last, resaved>>

\* _savetree on a namedtuple: one call per field of _asdict()
SaveNamedtuple ==
    /\ pc = "saving" /\ stack # <<>>
    /\ LET fr == Head(stack)
           t == fr.tree
           sub == Append(fr.group, fr.name) IN
        /\ ~IsNdarray(t) /\ IsNamedtuple(t)
        /\ file' = NewGroup(file, fr)
        /\ stack' = [k \in 1..Len(t.items) |-> Frame(t.items[k], sub, t.keys[k])]
                    \o Tail(stack)
    /\ UNCHANGED <<handles, acquired, pc, tree, saved, result, last, resaved>>

\* _savetree on a tuple or a list: one call per element, named arr{k}
SaveSequence ==
    /\ pc = "saving" /\ stack # <<>>
    /\ LET fr == Head(stack)
           t == fr.tree
           sub == Append(fr.group, fr.name) IN
        /\ ~IsNdarray(t) /\ ~IsNamedtuple(t) /\ IsSequence(t)
        /\ file' = NewGroup(file, fr)
        /\ stack' = [k \in 1..Len(t.items) |-> Frame(t.items[k], sub, ArrName(k - 1))]
                    \o Tail(stack)
    /\ UNCHANGED <<handles, acquired, pc, tree, saved, result, last, resaved>>

\* _savetree on a dict: one call per item
SaveDict ==
    /\ pc = "saving" /\ stack # <<>>
    /\ LET fr == Head(stack)
           t == fr.tree
           sub == Append(fr.group, fr.name) IN
        /\ ~IsNdarray(t) /\ ~IsNamedtuple(t) /\ ~IsSequence(t) /\ IsDict(t)
        /\ file' = NewGroup(file, fr)
        /\ stack' = [k \in 1..Len(t.items) |-> Frame(t.items[k], sub, t.keys[k])]
                    \o Tail(stack)
    /\ UNCHANGED <<handles, acquired, pc, tree, saved, result, last, resaved>>

\* _savetree on anything else: the group is created and tagged, then
\* ValueError is raised
SaveUnrecognized ==
    /\ pc = "saving" /\ stack # <<>>
    /\ LET fr == Head(stack)
           t == fr.tree IN
        /\ ~IsNdarray(t) /\ ~IsNamedtuple(t) /\ ~IsSequence(t) /\ ~IsDict(t)
        /\ file' = NewGroup(file, fr)
    /\ pc' = "save_raising"
    /\ UNCHANGED <<handles, acquired, stack, tree, saved, result, last, resaved>>

\* the outermost _savetree returned: the with block closes the file
SaveReturn ==
    /\ pc = "saving" /\ stack = <<>>
    /\ handles' = handles - 1
    /\ pc' = "idle"
    /\ saved' = "ok"
    /\ last' = "save_ok"
    /\ UNCHANGED <<file, acquired, stack, tree, result, resaved>>

\* the error leaving save with the file still open
SaveRaiseLeak ==
    /\ pc = "save_raising"
    /\ handles' = handles
    /\ stack' = <<>>
    /\ pc' = "idle"
    /\ saved' = "failed"
    /\ last' = "save_err"
    /\ UNCHANGED <<file, acquired, tree, result, resaved>>

\* the error leaving save with the partial file emptied
SaveRaiseCleanup ==
    /\ pc = "save_raising"
    /\ handles' = handles - 1
    /\ file' = {}
    /\ stack' = <<>>
    /\ pc' = "idle"
    /\ saved' = "failed"
    /\ last' = "save_err"
    /\ UNCHANGED <<acquired, tree, result, resaved>>

\* ValueError leaves the with block: the file is closed, the error propagates
SaveRaise ==
    /\ pc = "save_raising"
    /\ handles' = handles - 1
    /\ stack' = <<>>
    /\ pc' = "idle"
    /\ saved' = "failed"
    /\ last' = "save_err"
    /\ UNCHANGED <<file, acquired, tree, result, resaved>>

----------------------------------------------------------------------------
(* load *)

\* _loadtree(leaf), leaf the node at path; KeyError when a group has no type
RECURSIVE LoadTree(_, _)
LoadTree(f, path) ==
    LET leaf == Lookup(f, path) IN
    IF leaf.node = "dataset" THEN NdArray(leaf.data)
    ELSE IF ~HasAttr(leaf, "type") THEN KeyError
    ELSE LET leaf_type == Attr(leaf, "type")
             keys == Keys(f, path)
             values == [i \in 1..Len(keys) |-> LoadTree(f, Append(path, keys[i]))]
         IN  IF \E i \in 1..Len(keys) : values[i] = KeyError THEN KeyError
             ELSE IF leaf_type = "dict" THEN Dict(keys, values)
             ELSE IF leaf_type = "list" THEN List(values)
             ELSE IF leaf_type = "tuple" THEN Tuple(values)
             ELSE NamedTuple(leaf_type, keys, values)

\* with h5py.File(filepath, 'r') as f:
LoadOpen ==
    /\ pc = "idle"
    /\ pc' = "loading"
    /\ handles' = handles + 1
    /\ acquired' = 1
    /\ result' = NoTree
    /\ last' = "none"
    /\ UNCHANGED <<file, stack, tree, saved, resaved>>

\* _loadtree(f['pytree']) evaluated to a value
LoadValue ==
    /\ pc = "loading"
    /\ HasNode(file, <<PyTreeName>>)
    /\ LoadTree(file, <<PyTreeName>>) # KeyError
    /\ result' = LoadTree(file, <<PyTreeName>>)
    /\ pc' = "load_returning"
    /\ UNCHANGED <<file, handles, acquired, stack, tree, saved, last, resaved>>

\* f['pytree'] or leaf.attrs['type'] raised KeyError
LoadKeyError ==
    /\ pc = "loading"
    /\ IF HasNode(file, <<PyTreeName>>)
          THEN LoadTree(file, <<PyTreeName>>) = KeyError
          ELSE TRUE
    /\ pc' = "load_raising"
    /\ UNCHANGED <<file, handles, acquired, stack, tree, saved, result, last, resaved>>

\* the with block closes the file; the value is returned
LoadReturn ==
    /\ pc = "load_returning"
    /\ handles' = handles - 1
    /\ pc' = "idle"
    /\ last' = "load_ok"
    /\ UNCHANGED <<file, acquired, stack, tree, saved, result, resaved>>

\* the with block closes the file; the error propagates
LoadRaise ==
    /\ pc = "load_raising"
    /\ handles' = handles - 1
    /\ pc' = "idle"
    /\ last' = "load_err"
    /\ UNCHANGED <<file, acquired, stack, tree, saved, result, resaved>>

----------------------------------------------------------------------------

Init ==
    /\ file \in ForeignFiles
    /\ handles = 0
    /\ acquired = 0
    /\ pc = "idle"
    /\ stack = <<>>
    /\ tree = NoTree
    /\ saved = "none"
    /\ result = NoTree
    /\ last = "none"
    /\ resaved = FALSE

Next ==
    \/ \E t \in Trees : SaveOpen(t)
    \/ SaveDataset
    \/ SaveNamedtuple
    \/ SaveSequence
    \/ SaveDict
    \/ SaveUnrecognized
    \/ SaveReturn
    \/ SaveRaise
    \/ LoadOpen
    \/ LoadValue
    \/ LoadKeyError
    \/ LoadReturn
    \/ LoadRaise

Spec == Init /\ [][Next]_vars

----------------------------------------------------------------------------
(* Vocabulary of the properties. *)

IsArray(t) == t.kind \in {"ndarray", "DeviceArray"}

IsContainer(t) == t.kind \in {"list", "tuple", "dict", "namedtuple"}

\* equality of pytrees: arrays by contents, lists, tuples and namedtuples by
\* position (namedtuples also by type name and fields), dicts by key
RECURSIVE TreeEq(_, _)
TreeEq(a, b) ==
    IF IsArray(a) \/ IsArray(b)
      THEN IsArray(a) /\ IsArray(b) /\ a.data = b.data
    ELSE IF a.kind # b.kind \/ Len(a.items) # Len(b.items) THEN FALSE
    ELSE IF a.kind = "dict"
      THEN /\ {a.keys[i] : i \in 1..Len(a.keys)} = {b.keys[i] : i \in 1..Len(b.keys)}
           /\ \A i, j \in 1..Len(a.items) :
                a.keys[i] = b.keys[j] => TreeEq(a.items[i], b.items[j])
    ELSE /\ a.name = b.name
         /\ a.keys = b.keys
         /\ \A i \in 1..Len(a.items) : TreeEq(a.items[i], b.items[i])

\* the name under which a container stores its k-th child
ChildName(t, k) == IF t.kind \in {"list", "tuple"} THEN ArrName(k - 1) ELSE t.keys[k]

\* the nodes of t with their file paths: depth first, parent before
\* children, children in container order
RECURSIVE WalkOrder(_, _, _)
RECURSIVE WalkChildren(_, _, _)
WalkOrder(t, group, name) ==
    <<[path |-> Append(group, name), tree |-> t]>>
    \o WalkChildren(t, Append(group, name), 1)

WalkChildren(t, sub, k) ==
    IF k > Len(t.items) THEN <<>>
    ELSE WalkOrder(t.items[k], sub, ChildName(t, k)) \o WalkChildren(t, sub, k + 1)

\* the walk of the tree handed to the current/last save
Walk == WalkOrder(DeviceGet(tree), <<>>, PyTreeName)

\* the file node that stands for a tree node
ImageNode(e) ==
    IF IsArray(e.tree)
      THEN [path |-> e.path, node |-> "dataset", attrs |-> {}, data |-> e.tree.data]
      ELSE [path |-> e.path, node |-> "group",
            attrs |-> {<<"type", e.tree.name>>}, data |-> 0]

Unsupported(t) == ~IsArray(t) /\ ~IsContainer(t)

\* position in the walk of the first node save cannot store (0: none)
FirstUnsupported ==
    IF \E i \in 1..Len(Walk) : Unsupported(Walk[i].tree)
      THEN CHOOSE i \in 1..Len(Walk) :
              /\ Unsupported(Walk[i].tree)
              /\ \A j \in 1..(i - 1) : ~Unsupported(Walk[j].tree)
      ELSE 0

\* a load returned the file written by a save that succeeded
LoadedSaved == last = "load_ok" /\ saved = "ok"

TopLevel == {n \in file : Len(n.path) = 1}

TypeAttrs(n) == {a \in n.attrs : a[1] = "type"}

\* the type names of the namedtuples of the tree being saved
LabeledNames ==
    {Walk[i].tree.name : i \in {j \in 1..Len(Walk) : Walk[j].tree.kind = "namedtuple"}}

----------------------------------------------------------------------------
(* Properties. *)

\* C1: load after a successful save returns a tree equal to the saved one:
\* same arrays, same container shapes, same keys, same order, same fields.
RoundTrip == LoadedSaved => TreeEq(result, tree)

\* C2: a list or tuple of n elements is stored under arr0 .. arr{n-1} and
\* loaded back in the original element order.
SequenceOrderPreserved ==
    (LoadedSaved /\ tree.kind \in {"list", "tuple"}) =>
        /\ {n.path[2] : n \in Children(file, <<PyTreeName>>)}
              = {ArrName(k) : k \in 0..(Len(tree.items) - 1)}
        /\ Len(result.items) = Len(tree.items)
        /\ \A k \in 1..Len(tree.items) : TreeEq(result.items[k], tree.items[k])

\* C3: a namedtuple loads as a namedtuple of the same type name, the same
\* fields in the declared order, each field holding its original value.
NamedtupleFidelity ==
    (LoadedSaved /\ tree.kind = "namedtuple") =>
        /\ result.kind = "namedtuple"
        /\ result.name = tree.name
        /\ result.keys = tree.keys
        /\ \A i, j \in 1..Len(tree.items) :
              (j <= Len(result.items) /\ result.keys[j] = tree.keys[i])
                 => TreeEq(result.items[j], tree.items[i])

\* C4: the container shape that load rebuilds is the shape that was saved,
\* whatever type name a namedtuple carries.
ShapePreserved == (LoadedSaved /\ IsContainer(tree)) => result.kind = tree.kind

\* C5: a save of a tree holding an unsupported node never succeeds, and no
\* node of the file stands for an unsupported node.
UnsupportedRejected ==
    (tree # NoTree) =>
        \A i \in 1..Len(Walk) :
            Unsupported(Walk[i].tree) =>
                /\ saved # "ok"
                /\ ~HasNode(file, Walk[i].path)

\* C6: in every file state a save produces, each group has exactly one type
\* attribute, valued dict, list, tuple or a namedtuple type name, and no
\* dataset has a type attribute.
TypeTagInvariant ==
    (tree # NoTree) =>
        \A n \in file :
            IF n.node = "group"
              THEN /\ Cardinality(TypeAttrs(n)) = 1
                   /\ Attr(n, "type") \in {"dict", "list", "tuple"} \cup LabeledNames
              ELSE TypeAttrs(n) = {}

\* C7 as claimed: after a successful save the file has exactly one top-level
\* node, named pytree, and it is a group.
RootIsGroup ==
    (saved = "ok") =>
        /\ Cardinality(TopLevel) = 1
        /\ \A n \in TopLevel : n.path = <<PyTreeName>> /\ n.node = "group"

\* C7 amended: after a successful save the file has exactly one top-level
\* node, named pytree; it is a group when the tree is a container and a
\* dataset when the tree is a single array.
RootIsPytree ==
    (saved = "ok") =>
        /\ Cardinality(TopLevel) = 1
        /\ \A n \in TopLevel :
              /\ n.path = <<PyTreeName>>
              /\ n.node = (IF IsArray(tree) THEN "dataset" ELSE "group")

RootIsPytreeWitness ==
    /\ saved = "ok" /\ IsArray(tree)
    /\ \E n \in TopLevel : n.path = <<PyTreeName>> /\ n.node = "dataset"

\* C8: a call holds exactly one handle while it runs, opened once, and no
\* handle is open once the call has ended, however it ended.
HandleReleased ==
    /\ pc = "idle" => handles = 0
    /\ pc # "idle" => (handles = 1 /\ acquired = 1)
    /\ last # "none" => acquired = 1

HandleReleasedWitness == last = "save_err" /\ handles = 0 /\ acquired = 1

\* C9: after saves to the same path the file holds exactly the nodes of the
\* last saved tree, and a load returns that tree.
SaveReplaces ==
    (LoadedSaved /\ resaved) =>
        /\ file = {ImageNode(Walk[i]) : i \in 1..Len(Walk)}
        /\ TreeEq(result, tree)

\* C10: a failed save leaves exactly the nodes written up to the error: the
\* walk's nodes through the unsupported one, none after it, none of the
\* content the file held before.
AbortLeavesPrefix ==
    (pc = "save_raising" \/ saved = "failed") =>
        /\ FirstUnsupported > 0
        /\ file = {ImageNode(Walk[i]) : i \in 1..FirstUnsupported}

AbortLeavesPrefixWitness ==
    /\ saved = "failed" /\ resaved
    /\ FirstUnsupported > 1
    /\ FirstUnsupported < Len(Walk)
    /\ ~HasNode(file, Walk[Len(Walk)].path)

====
